---- MODULE Spec2Model ----
(***************************************************************************)
(* Model of the CASE prompt tooling of workflows/recipes:                  *)
(*   generate_case_prompt.py  - pool merging (_load_pools) and sampling    *)
(*                              (generate_prompt, _pick_items)             *)
(*   apply_case_prompt.py     - the workflow patcher (main)                *)
(*                                                                         *)
(* Python dicts keep insertion order, and the code depends on it           *)
(* (find_node_id returns the first match, sections are sampled in dict     *)
(* order), so a dict is modelled as a sequence of [k, v] entries.          *)
(***************************************************************************)
EXTENDS Integers, Sequences, FiniteSets, TLC

VARIABLES
    \* ---- _load_pools (generate_case_prompt.py:22-66)
    sets,            \* data["sets"]: mode -> section -> subcategory -> tokens
    modes,           \* the requested mode list
    mode_idx,        \* position of the `for mode in modes` loop (line 54)
    combined,        \* section -> subcategory -> merged token list
    sources,         \* section -> subcategory -> mode -> contributed tokens
    prev_combined,   \* combined before the latest merge step (history)
    pool_pc          \* "merging" | "done" | "failed" | "idle"

VARIABLES
    \* ---- generate_prompt (generate_case_prompt.py:208-306)
    seed,            \* <<>> for None, <<n>> for seed n
    default_count,
    overrides,       \* section -> subcategory -> count (the four *_overrides)
    style_preset,    \* "" for None
    negative_groups,
    rng,             \* state of the process-wide generator of module random
    sec_idx,         \* which of the four _sample_section calls is running
    key_idx,         \* position of `for key, options in section.items()`
    selections,      \* section name -> the list composition/action/subject/environment
    sampled,         \* selections as they were before the preset was merged (history)
    negatives,
    last_pick,       \* arguments and result of the latest _pick_items call (history)
    gen_pc,          \* "sampling" | "preset" | "negatives" | "done" | "failed" | "idle"
    run_no,          \* which call of generate_prompt in this process is running
    first_out        \* the CasePrompt the first call returned (history; <<>> before)

VARIABLES
    \* ---- apply_case_prompt.py main (lines 191-448)
    workflow,        \* the graph document stored at args.workflow
    outdoc,          \* the document at this run's args.output (<<>>: no such file)
    input_root,      \* whether the directory <workflow>/../../input exists
    files,           \* names of the files in that directory
    session,         \* how many runs of main have started
    pc,              \* the block of main about to run, or "idle" | "done" | "failed"
    err,             \* which SystemExit ended the run ("" when none)
    args,            \* the parsed command line of this run
    data,            \* the in-memory graph (`data`)
    loaded,          \* the graph as read at line 227 (history)
    files0,          \* input_root and files when the run started (history)
    alloc_log        \* the next_id() calls of this run: id and graph ids then (history)

patchVars == <<workflow, outdoc, input_root, files, session, pc, err, args, data,
               loaded, files0, alloc_log>>

poolVars == <<sets, modes, mode_idx, combined, sources, prev_combined, pool_pc>>

genVars == <<seed, default_count, overrides, style_preset, negative_groups, rng,
             sec_idx, key_idx, selections, sampled, negatives, last_pick, gen_pc,
             run_no, first_out>>

vars == <<poolVars, genVars, patchVars>>

-----------------------------------------------------------------------------
(* Generic helpers *)

Range(s) == {s[i] : i \in 1..Len(s)}

NoDuplicates(s) == \A i, j \in 1..Len(s) : s[i] = s[j] => i = j

IsPrefix(s, t) == Len(s) <= Len(t) /\ \A i \in 1..Len(s) : s[i] = t[i]

Min(a, b) == IF a <= b THEN a ELSE b

\* All sequences over S of length 1..n
SeqsUpTo(S, n) == UNION {[1..k -> S] : k \in 1..n}

(* Ordered dicts: a sequence of entries [k |-> key, v |-> value], keys unique *)

Entry(key, value) == [k |-> key, v |-> value]

Keys(d) == {d[i].k : i \in 1..Len(d)}

HasKey(d, key) == key \in Keys(d)

IndexOf(d, key) == CHOOSE i \in 1..Len(d) : d[i].k = key

\* d[key]
Get(d, key) == d[IndexOf(d, key)].v

\* d.get(key, default)
GetOr(d, key, default) == IF HasKey(d, key) THEN Get(d, key) ELSE default

\* d[key] = value : an existing key keeps its position, a new key goes last
Put(d, key, value) ==
    IF HasKey(d, key)
    THEN [d EXCEPT ![IndexOf(d, key)] = Entry(key, value)]
    ELSE Append(d, Entry(key, value))

-----------------------------------------------------------------------------
(* _load_pools *)

\* Bounds of the pool model
MaxModes == 3

\* lines 49-50 / 51-52 with the membership test dropped
AppendAlways(list, value) == Append(list, value)

\* lines 49-50: if value not in dest_list: dest_list.append(value)
AppendDest(list, value) ==
    IF value \in Range(list) THEN list ELSE Append(list, value)

\* lines 51-52: if value not in mode_list: mode_list.append(value)
AppendMode(list, value) ==
    IF value \in Range(list) THEN list ELSE Append(list, value)

\* lines 48-52, the dest_list half of `for value in values`
RECURSIVE ExtendDest(_, _)
ExtendDest(list, values) ==
    IF values = <<>> THEN list
    ELSE ExtendDest(AppendDest(list, Head(values)), Tail(values))

\* lines 48-52, the mode_list half of `for value in values`
RECURSIVE ExtendMode(_, _)
ExtendMode(list, values) ==
    IF values = <<>> THEN list
    ELSE ExtendMode(AppendMode(list, Head(values)), Tail(values))

\* lines 45-50: dest_section after one (key, values) item of additions
MergeKeyDest(dest_section, key, values) ==
    Put(dest_section, key, ExtendDest(GetOr(dest_section, key, <<>>), values))

\* lines 46-52: source_section after one (key, values) item of additions
MergeKeySource(source_section, key, values, mode_name) ==
    LET source_modes == GetOr(source_section, key, <<>>)
        mode_list    == GetOr(source_modes, mode_name, <<>>)
    IN  Put(source_section, key,
            Put(source_modes, mode_name, ExtendMode(mode_list, values)))

\* lines 44-52: `for key, values in additions.items()` over one section
RECURSIVE MergeItemsDest(_, _)
MergeItemsDest(dest_section, additions) ==
    IF additions = <<>> THEN dest_section
    ELSE MergeItemsDest(
             MergeKeyDest(dest_section, Head(additions).k, Head(additions).v),
             Tail(additions))

RECURSIVE MergeItemsSource(_, _, _)
MergeItemsSource(source_section, additions, mode_name) ==
    IF additions = <<>> THEN source_section
    ELSE MergeItemsSource(
             MergeKeySource(source_section, Head(additions).k,
                            Head(additions).v, mode_name),
             Tail(additions), mode_name)

\* merge_section (lines 39-52); the pair <<combined, sources>> is threaded through
merge_section(cs, section_name, additions, mode_name) ==
    <<Put(cs[1], section_name,
          MergeItemsDest(GetOr(cs[1], section_name, <<>>), additions)),
      Put(cs[2], section_name,
          MergeItemsSource(GetOr(cs[2], section_name, <<>>), additions, mode_name))>>

\* lines 59-60: `for section_name, section_values in additions.items()`
RECURSIVE MergeSections(_, _, _)
MergeSections(cs, mode_additions, mode_name) ==
    IF mode_additions = <<>> THEN cs
    ELSE MergeSections(
             merge_section(cs, Head(mode_additions).k, Head(mode_additions).v, mode_name),
             Tail(mode_additions), mode_name)

\* lines 54-60 as a function: the whole `for mode in modes` loop.
\* <<>> stands for SystemExit (a requested mode is not in sets).
RECURSIVE MergeModes(_, _, _)
MergeModes(cs, pool_sets, mode_list) ==
    IF mode_list = <<>> THEN cs
    ELSE IF ~HasKey(pool_sets, Head(mode_list)) THEN <<>>
    ELSE MergeModes(MergeSections(cs, Get(pool_sets, Head(mode_list)), Head(mode_list)),
                    pool_sets, Tail(mode_list))

\* lines 33-60: `if not modes: modes = ("general",)`, then the merge
LoadPools(pool_sets, mode_list) ==
    MergeModes(<<<<>>, <<>>>>, pool_sets,
               IF mode_list = <<>> THEN <<"general">> ELSE mode_list)

(* The pool definitions the model ranges over (case_prompt_pools.json is data, *)
(* not code): three modes, lists that overlap between modes and that hold a    *)
(* repeated token inside one source list.                                      *)

GeneralQuality == {<<"a", "b">>, <<"a", "b", "a">>}
MatureQuality  == {<<"b", "c">>, <<"c", "a", "c">>}
SpicyQuality   == {<<"c", "d">>, <<"a">>}

PoolSets(gq, mq, sq) ==
    << Entry("general",
           << Entry("composition", <<Entry("quality", gq), Entry("lighting", <<"soft">>)>>),
              Entry("action",      <<Entry("pose", <<"run">>)>>),
              Entry("subject",     <<Entry("who", <<"cat">>)>>),
              Entry("environment", <<Entry("place", <<"park">>)>>) >>),
       Entry("mature",
           << Entry("composition", <<Entry("lighting", <<"soft", "dim">>), Entry("quality", mq)>>),
              Entry("action",      <<Entry("pose", <<"sit", "run">>)>>) >>),
       Entry("spicy",
           << Entry("composition", <<Entry("quality", sq)>>),
              Entry("subject",     <<Entry("who", <<"cat", "fox">>), Entry("mood", <<"bold">>)>>) >>) >>

AllPoolSets ==
    {PoolSets(gq, mq, sq) : gq \in GeneralQuality, mq \in MatureQuality, sq \in SpicyQuality}

\* mode names a caller may pass; "nosuch" is not defined in sets
ModeNames == {"general", "mature", "spicy", "nosuch"}

SectionOrder == <<"composition", "action", "subject", "environment">>

NoSelections == [s \in Range(SectionOrder) |-> <<>>]

NoPick == [called |-> FALSE, options |-> <<>>, count |-> 0, preferred |-> <<>>,
           picked |-> <<>>, chosen |-> <<>>]

\* an argument record with every option at its argparse default (lines 20-188);
\* "" stands for None, and for numbers the literal text of the value
NoArgs ==
    [pos_node |-> 6, neg_node |-> 7, positive_text |-> "", negative_text |-> "",
     lora_strength_model |-> "", lora_strength_clip |-> "", clip_layer |-> "",
     add_controlnet |-> FALSE, controlnet |-> "", control_image |-> "",
     control_strength |-> "0.9", control_start |-> "0.0", control_end |-> "1.0",
     add_ipadapter |-> FALSE, ipadapter_image |-> "", ipadapter_community |-> FALSE,
     ipadapter_preset |-> "PLUS (high strength)",
     ipadapter_community_preset |-> "Composition",
     ipadapter_weight |-> "0.85", ipadapter_weight_type |-> "style and composition",
     ipadapter_combine |-> "average", ipadapter_start |-> "0.0",
     ipadapter_end |-> "0.7", ipadapter_embeds |-> "K+mean(V) w/ C penalty",
     output |-> FALSE]

\* the patcher is not running
PatchIdle ==
    /\ workflow = <<>>
    /\ outdoc = <<>>
    /\ input_root = FALSE
    /\ files = {}
    /\ session = 0
    /\ pc = "off"
    /\ err = ""
    /\ args = NoArgs
    /\ data = <<>>
    /\ loaded = <<>>
    /\ files0 = [input_root |-> FALSE, files |-> {}]
    /\ alloc_log = <<>>

\* the sampler is not running
GenIdle ==
    /\ seed = <<>>
    /\ default_count = 1
    /\ overrides = <<>>
    /\ style_preset = ""
    /\ negative_groups = <<>>
    /\ rng = [known |-> FALSE, seed |-> 0, pos |-> 0]
    /\ sec_idx = 1
    /\ key_idx = 1
    /\ selections = NoSelections
    /\ sampled = NoSelections
    /\ negatives = <<>>
    /\ last_pick = NoPick
    /\ gen_pc = "idle"
    /\ run_no = 1
    /\ first_out = <<>>

PoolInit ==
    /\ GenIdle
    /\ PatchIdle
    /\ sets \in AllPoolSets
    /\ modes \in SeqsUpTo(ModeNames, MaxModes)
    /\ mode_idx = 1
    /\ combined = <<>>
    /\ sources = <<>>
    /\ prev_combined = <<>>
    /\ pool_pc = "merging"

\* one iteration of `for mode in modes` (lines 54-60), mode found in sets
MergeMode ==
    /\ pool_pc = "merging"
    /\ mode_idx <= Len(modes)
    /\ HasKey(sets, modes[mode_idx])
    /\ LET cs == MergeSections(<<combined, sources>>, Get(sets, modes[mode_idx]),
                               modes[mode_idx])
       IN  /\ combined' = cs[1]
           /\ sources' = cs[2]
    /\ prev_combined' = combined
    /\ mode_idx' = mode_idx + 1
    /\ UNCHANGED <<sets, modes, pool_pc>>
    /\ UNCHANGED <<genVars, patchVars>>

\* lines 55-58: sets[mode] raises KeyError -> SystemExit
MergeModeMissing ==
    /\ pool_pc = "merging"
    /\ mode_idx <= Len(modes)
    /\ ~HasKey(sets, modes[mode_idx])
    /\ pool_pc' = "failed"
    /\ UNCHANGED <<sets, modes, mode_idx, combined, sources, prev_combined>>
    /\ UNCHANGED <<genVars, patchVars>>

\* lines 62-66: the loop is over, the merged pool is returned
MergeDone ==
    /\ pool_pc = "merging"
    /\ mode_idx > Len(modes)
    /\ pool_pc' = "done"
    /\ UNCHANGED <<sets, modes, mode_idx, combined, sources, prev_combined>>
    /\ UNCHANGED <<genVars, patchVars>>

PoolNext == MergeMode \/ MergeModeMissing \/ MergeDone

SpecPool == PoolInit /\ [][PoolNext]_vars

(* Properties of _load_pools, checked under SpecPool *)

\* every token list of a merged pool: section -> subcategory -> list
ListsOf(pool) ==
    UNION {{<<pool[i].k, pool[i].v[j].k, pool[i].v[j].v>> : j \in 1..Len(pool[i].v)} :
              i \in 1..Len(pool)}

\* the list of (section, key) in a merged pool, <<>> when it has none
ListAt(pool, section, key) == GetOr(GetOr(pool, section, <<>>), key, <<>>)

\* C8: while the modes are merged in order, every (section, subcategory) list
\* only grows by appending. After each merge step the list as it was before the
\* step is a prefix of the list after it (earlier tokens keep their order and
\* positions), and no list ever holds a token twice, so what a later mode
\* appends are tokens that were not yet present.
C8_MergeOnlyAppendsUnseen ==
    /\ \A l \in ListsOf(prev_combined) : IsPrefix(l[3], ListAt(combined, l[1], l[2]))
    /\ \A l \in ListsOf(combined) : NoDuplicates(l[3])

\* a later mode met a list that held tokens, repeated one of them and appended another
C8_Witness ==
    /\ mode_idx = 3
    /\ modes[1] = "general" /\ modes[2] = "mature"
    /\ ListAt(prev_combined, "composition", "quality") = <<"a", "b">>
    /\ ListAt(Get(sets, "mature"), "composition", "quality") = <<"b", "c">>
    /\ ListAt(combined, "composition", "quality") = <<"a", "b", "c">>

\* s with only the first occurrence of each element kept
RECURSIVE Dedup(_)
Dedup(s) ==
    IF s = <<>> THEN <<>>
    ELSE LET d == Dedup(SubSeq(s, 1, Len(s) - 1))
         IN  IF s[Len(s)] \in Range(d) THEN d ELSE Append(d, s[Len(s)])

\* C9: merging the same blend mode twice is idempotent. The merged pool (token
\* lists and provenance table) built for a mode list is the pool built for the
\* same list with every repetition of a mode removed, and listing any of its
\* modes once more at the end changes nothing either.
C9_RepeatedModeIdempotent ==
    pool_pc = "done" =>
        /\ LoadPools(sets, Dedup(modes)) = <<combined, sources>>
        /\ \A i \in 1..Len(modes) :
              LoadPools(sets, Append(modes, modes[i])) = <<combined, sources>>

\* a merge finished for a list that names a mode twice, with another mode between
C9_Witness ==
    /\ pool_pc = "done"
    /\ Len(modes) = 3
    /\ modes[1] = modes[3] /\ modes[1] # modes[2]
    /\ combined # <<>>

-----------------------------------------------------------------------------
(* generate_prompt and _pick_items *)

\* Bounds of the sampler model
MaxCount == 2
RngRange == 24

\* pools["negative_base"], pools["negative_optional"], pools["style_presets"]:
\* copied verbatim from the pool file by _load_pools (lines 62-64)
NegativeBase == <<"blurry", "lowres">>

NegativeOptional ==
    << Entry("nsfw", <<"nude", "harsh">>),
       Entry("text", <<"watermark">>) >>

StylePresets ==
    << Entry("romantic",
           << Entry("composition", <<"soft", "glow", "glow">>),
              Entry("subject",     <<"fox">>),
              Entry("negative",    <<"blurry", "harsh">>) >>),
       Entry("plain",
           << Entry("action", <<"walk">>) >>) >>

\* the raw number the generator yields at position pos after random.seed(s);
\* the stdlib generator is a fixed function of its state
Tape(s, pos) == (s * 7 + pos * 5 + s * pos * 3 + 1) % RngRange

\* s without its i-th element
RemoveAt(s, i) == SubSeq(s, 1, i - 1) \o SubSeq(s, i + 1, Len(s))

\* random.sample(population, k): k elements at distinct positions, in the order
\* drawn. r is the raw random number; its mixed-radix digits pick the positions,
\* so r in 0..(n!/(n-k)!)-1 reaches every outcome exactly once.
RECURSIVE Sample(_, _, _)
Sample(population, k, r) ==
    IF k = 0 THEN <<>>
    ELSE LET n == Len(population)
             i == (r % n) + 1
         IN  <<population[i]>> \o Sample(RemoveAt(population, i), k - 1, r \div n)

\* line 92: [item for item in preferred if item in options]
AvailablePreferred(options, preferred) ==
    SelectSeq(preferred, LAMBDA item : item \in Range(options))

\* a preference pass that stops after one token
PreferredPassOne(options, count, preferred, r1) ==
    LET available_preferred == AvailablePreferred(options, preferred)
    IN  IF available_preferred # <<>>
        THEN Sample(available_preferred, Min(count, 1), r1)
        ELSE <<>>

\* lines 93-96: the preference pass
PreferredPass(options, count, preferred, r1) ==
    LET available_preferred == AvailablePreferred(options, preferred)
    IN  IF available_preferred # <<>>
        THEN Sample(available_preferred, Min(count, Len(available_preferred)), r1)
        ELSE <<>>

\* lines 97-106: the fill pass, given what the preference pass chose
FillPass(options, count, chosen, r2) ==
    LET left == count - Len(chosen)
        remaining_pool == SelectSeq(options, LAMBDA item : item \notin Range(chosen))
    IN  IF left <= 0 THEN chosen
        ELSE IF remaining_pool = <<>> THEN chosen
        ELSE IF left >= Len(remaining_pool) THEN chosen \o remaining_pool
        ELSE chosen \o Sample(remaining_pool, left, r2)

\* _pick_items (lines 88-106); r1, r2 are the raw numbers of its two random.sample calls
PickItems(options, count, preferred, r1, r2) ==
    IF count <= 0 THEN <<>>
    ELSE FillPass(options, count, PreferredPass(options, count, preferred, r1), r2)

\* 1 when the preference pass calls random.sample (line 95), else 0
FirstDraw(options, count, preferred) ==
    IF count > 0 /\ AvailablePreferred(options, preferred) # <<>> THEN 1 ELSE 0

\* 1 when the fill pass calls random.sample (line 105), else 0
SecondDraw(options, count, chosen) ==
    LET left == count - Len(chosen)
        remaining_pool == SelectSeq(options, LAMBDA item : item \notin Range(chosen))
    IN  IF left > 0 /\ remaining_pool # <<>> /\ left < Len(remaining_pool) THEN 1 ELSE 0

\* line 225: preferred_modes = [mode for mode in modes or [] if mode != "general"]
PreferredModes(mode_list) == SelectSeq(mode_list, LAMBDA m : m # "general")

\* lines 233-235: selections.extend(mode_map.get(mode, [])) over preferred_modes
RECURSIVE ConcatModes(_, _)
ConcatModes(mode_map, preferred_modes) ==
    IF preferred_modes = <<>> THEN <<>>
    ELSE GetOr(mode_map, Head(preferred_modes), <<>>)
         \o ConcatModes(mode_map, Tail(preferred_modes))

\* lines 232-237: `for key, mode_map in section_sources.items()`
RECURSIVE PreferredMap(_, _)
PreferredMap(section_sources, preferred_modes) ==
    IF section_sources = <<>> THEN <<>>
    ELSE LET e == Head(section_sources)
             sel == ConcatModes(e.v, preferred_modes)
             rest == PreferredMap(Tail(section_sources), preferred_modes)
         IN  IF sel # <<>> THEN <<Entry(e.k, sel)>> \o rest ELSE rest

\* build_preferred (lines 227-238)
build_preferred(section_name) ==
    IF PreferredModes(modes) = <<>> THEN <<>>
    ELSE PreferredMap(GetOr(sources, section_name, <<>>), PreferredModes(modes))

\* lines 120-122: pref_values for one key
PrefValues(section_name, key) == GetOr(build_preferred(section_name), key, <<>>)

\* extend_unique (lines 280-283)
RECURSIVE extend_unique(_, _)
extend_unique(target, additions) ==
    IF additions = <<>> THEN target
    ELSE extend_unique(
             IF Head(additions) \in Range(target) THEN target
             ELSE Append(target, Head(additions)),
             Tail(additions))

\* lines 292-295: negatives.extend(optional_pool[group]) over the requested groups
RECURSIVE ExtendGroups(_, _)
ExtendGroups(list, groups) ==
    IF groups = <<>> THEN list
    ELSE ExtendGroups(list \o Get(NegativeOptional, Head(groups)), Tail(groups))

\* lines 297-298: negatives.extend(preset_data.get("negative", []))
ExtendPresetNegatives(list, preset_data) ==
    list \o GetOr(preset_data, "negative", <<>>)

\* a seeding that is skipped when the process has seeded the generator before
random_seed_once(state, seed_opt) ==
    IF seed_opt # <<>> /\ ~state.known
    THEN [known |-> TRUE, seed |-> seed_opt[1], pos |-> 0]
    ELSE state

\* lines 245-246: `if seed is not None: random.seed(seed)`; the generator
\* restarts at the beginning of the seed's sequence, else keeps its state
random_seed(state, seed_opt) ==
    IF seed_opt # <<>> THEN [known |-> TRUE, seed |-> seed_opt[1], pos |-> 0]
    ELSE state

(* The calls the model ranges over *)

GenPoolSets == {PoolSets(<<"a", "b">>, mq, sq) : mq \in MatureQuality, sq \in SpicyQuality}

GenModes == {<<"general">>, <<"general", "mature">>, <<"general", "mature", "spicy">>,
             <<"mature", "spicy">>}

Seeds == {<<>>, <<7>>}

OverrideChoices ==
    {<<>>,
     <<Entry("composition", <<Entry("quality", 0)>>)>>,
     <<Entry("composition", <<Entry("quality", MaxCount + 1)>>)>>}

\* <<style_preset, negative_groups>>
PresetChoices ==
    {<<"", <<>>>>, <<"romantic", <<>>>>, <<"romantic", <<"nsfw", "text">>>>,
     <<"plain", <<"text">>>>, <<"nosuch", <<>>>>, <<"", <<"nosuch">>>>}

GenInit ==
    /\ PatchIdle
    /\ sets \in GenPoolSets
    /\ modes \in GenModes
    /\ mode_idx = Len(modes) + 1
    /\ combined = LoadPools(sets, modes)[1]
    /\ sources = LoadPools(sets, modes)[2]
    /\ prev_combined = <<>>
    /\ pool_pc = "done"
    /\ seed \in Seeds
    /\ default_count \in 1..MaxCount
    /\ overrides \in OverrideChoices
    /\ \E choice \in PresetChoices : style_preset = choice[1] /\ negative_groups = choice[2]
    \* lines 245-246: random.seed(seed) when a seed is given; otherwise the
    \* generator is in whatever state the process left it
    /\ rng = random_seed([known |-> FALSE, seed |-> 0, pos |-> 0], seed)
    /\ sec_idx = 1
    /\ key_idx = 1
    /\ selections = NoSelections
    /\ sampled = NoSelections
    /\ negatives = <<>>
    /\ last_pick = NoPick
    /\ gen_pc = "sampling"
    /\ run_no = 1
    /\ first_out = <<>>

\* n * (n-1) * ... * (n-k+1): the number of outcomes of random.sample on n items
RECURSIVE Perms(_, _)
Perms(n, k) == IF k = 0 THEN 1 ELSE n * Perms(n - 1, k - 1)

\* the raw numbers a random.sample(population of n, k) call can get: the one the
\* seeded generator yields at its position, or any (one per outcome) when the
\* generator's state is unknown; {0} when the call is not made (used = 0)
Draws(offset, n, k, used) ==
    IF used = 0 THEN {0}
    ELSE IF rng.known THEN {Tape(rng.seed, rng.pos + offset)}
    ELSE 0..(Perms(n, k) - 1)

CurSection == SectionOrder[sec_idx]

\* one iteration of `for key, options in section.items()` (lines 116-123)
SampleKey ==
    /\ gen_pc = "sampling"
    /\ sec_idx <= Len(SectionOrder)
    /\ HasKey(combined, CurSection)
    /\ key_idx <= Len(Get(combined, CurSection))
    /\ LET key     == Get(combined, CurSection)[key_idx].k
           options == Get(combined, CurSection)[key_idx].v
           count   == GetOr(GetOr(overrides, CurSection, <<>>), key, default_count)
           pref_values == PrefValues(CurSection, key)
           first   == FirstDraw(options, count, pref_values)
           ap      == AvailablePreferred(options, pref_values)
       IN  IF count <= 0
           THEN UNCHANGED <<selections, last_pick, rng>>
           ELSE \E r1 \in Draws(0, Len(ap), Min(count, Len(ap)), first) :
                  LET picked == PreferredPass(options, count, pref_values, r1)
                      left   == count - Len(picked)
                      remaining_pool ==
                          SelectSeq(options, LAMBDA item : item \notin Range(picked))
                      second == SecondDraw(options, count, picked)
                  IN  \E r2 \in Draws(first, Len(remaining_pool), left, second) :
                        LET chosen == PickItems(options, count, pref_values, r1, r2)
                        IN  /\ selections' = [selections EXCEPT ![CurSection] = @ \o chosen]
                            /\ last_pick' = [called |-> TRUE, options |-> options,
                                             count |-> count, preferred |-> pref_values,
                                             picked |-> picked, chosen |-> chosen]
                            /\ rng' = [rng EXCEPT !.pos =
                                          IF rng.known THEN @ + first + second ELSE @]
    /\ key_idx' = key_idx + 1
    /\ UNCHANGED <<sec_idx, sampled, negatives, gen_pc>>
    /\ UNCHANGED <<seed, default_count, overrides, style_preset, negative_groups>>
    /\ UNCHANGED <<run_no, first_out>>
    /\ UNCHANGED <<poolVars, patchVars>>

\* _sample_section returns (line 124); the next of lines 248-271 starts
SectionDone ==
    /\ gen_pc = "sampling"
    /\ sec_idx <= Len(SectionOrder)
    /\ HasKey(combined, CurSection)
    /\ key_idx > Len(Get(combined, CurSection))
    /\ sec_idx' = sec_idx + 1
    /\ key_idx' = 1
    /\ gen_pc' = IF sec_idx = Len(SectionOrder) THEN "preset" ELSE "sampling"
    /\ UNCHANGED <<selections, sampled, negatives, last_pick, rng>>
    /\ UNCHANGED <<seed, default_count, overrides, style_preset, negative_groups>>
    /\ UNCHANGED <<run_no, first_out>>
    /\ UNCHANGED <<poolVars, patchVars>>

\* pools["<section>"] raises KeyError: no requested mode defines the section
SectionMissing ==
    /\ gen_pc = "sampling"
    /\ sec_idx <= Len(SectionOrder)
    /\ ~HasKey(combined, CurSection)
    /\ gen_pc' = "failed"
    /\ UNCHANGED <<selections, sampled, negatives, last_pick, rng, sec_idx, key_idx>>
    /\ UNCHANGED <<seed, default_count, overrides, style_preset, negative_groups>>
    /\ UNCHANGED <<run_no, first_out>>
    /\ UNCHANGED <<poolVars, patchVars>>

\* lines 273-288: the style preset is merged into the four lists
ApplyPreset ==
    /\ gen_pc = "preset"
    /\ sampled' = selections
    /\ IF style_preset = ""
       THEN /\ gen_pc' = "negatives"
            /\ UNCHANGED selections
       ELSE IF ~HasKey(StylePresets, style_preset)
       THEN /\ gen_pc' = "failed"
            /\ UNCHANGED selections
       ELSE /\ gen_pc' = "negatives"
            /\ selections' = [s \in Range(SectionOrder) |->
                   extend_unique(selections[s],
                                 GetOr(Get(StylePresets, style_preset), s, <<>>))]
    /\ UNCHANGED <<negatives, last_pick, rng, sec_idx, key_idx>>
    /\ UNCHANGED <<seed, default_count, overrides, style_preset, negative_groups>>
    /\ UNCHANGED <<run_no, first_out>>
    /\ UNCHANGED <<poolVars, patchVars>>

\* lines 290-306: the negative list is assembled and the CasePrompt returned
BuildNegatives ==
    /\ gen_pc = "negatives"
    /\ IF \E i \in 1..Len(negative_groups) : ~HasKey(NegativeOptional, negative_groups[i])
       THEN /\ gen_pc' = "failed"
            /\ UNCHANGED negatives
       ELSE /\ gen_pc' = "done"
            /\ negatives' =
                 LET with_groups == ExtendGroups(NegativeBase, negative_groups)
                 IN  IF style_preset # ""
                     THEN ExtendPresetNegatives(with_groups, Get(StylePresets, style_preset))
                     ELSE with_groups
    /\ UNCHANGED <<selections, sampled, last_pick, rng, sec_idx, key_idx>>
    /\ UNCHANGED <<seed, default_count, overrides, style_preset, negative_groups>>
    /\ UNCHANGED <<run_no, first_out>>
    /\ UNCHANGED <<poolVars, patchVars>>

GenNext == SampleKey \/ SectionDone \/ SectionMissing \/ ApplyPreset \/ BuildNegatives

SpecGen == GenInit /\ [][GenNext]_vars

(* Properties of generate_prompt, checked under SpecGen *)

\* C1: the tokens _pick_items draws for a subcategory number exactly
\* min(requested_count, pool_size) and hold no token twice.
C1_DrawCountAndDistinct ==
    last_pick.called =>
        /\ Len(last_pick.chosen) = Min(last_pick.count, Len(last_pick.options))
        /\ NoDuplicates(last_pick.chosen)

\* the additions that are not in target, each once, in their order
RECURSIVE AbsentOnce(_, _, _)
AbsentOnce(target, additions, i) ==
    IF i > Len(additions) THEN <<>>
    ELSE (IF additions[i] \notin Range(target)
             /\ \A j \in 1..(i - 1) : additions[j] # additions[i]
          THEN <<additions[i]>> ELSE <<>>)
         \o AbsentOnce(target, additions, i + 1)

\* the four section lists after a preset: what was sampled, then the preset's
\* tokens that were absent
PresetSectionsMerged ==
    \A s \in Range(SectionOrder) :
        selections[s] = sampled[s]
            \o AbsentOnce(sampled[s], GetOr(Get(StylePresets, style_preset), s, <<>>), 1)

\* the negative list after a preset: base and groups, then the preset's
\* negative tokens that were absent
PresetNegativesMerged ==
    LET before == ExtendGroups(NegativeBase, negative_groups)
    IN  negatives = before
            \o AbsentOnce(before, GetOr(Get(StylePresets, style_preset), "negative", <<>>), 1)

\* C10: when a style preset is applied, each of its extra tokens is appended to
\* its target list only if that exact token is not already in the list, for the
\* four sections and, by the same rule, for the negative list.
C10_PresetAppendsOnlyAbsent ==
    (gen_pc = "done" /\ style_preset # "") =>
        PresetSectionsMerged /\ PresetNegativesMerged

\* C12: in every _pick_items call the preference pass selects at most count
\* tokens, all of them preferred, and a token that is not preferred is selected
\* only after every preferred token of the subcategory has been selected.
C12_PreferredFirst ==
    last_pick.called =>
        LET chosen == last_pick.chosen
            pref   == Range(last_pick.preferred)
        IN  /\ Len(last_pick.picked) <= last_pick.count
            /\ IsPrefix(last_pick.picked, chosen)
            /\ Range(last_pick.picked) \subseteq pref
            /\ Cardinality({i \in 1..Len(chosen) : chosen[i] \in pref}) <= last_pick.count
            /\ \A i \in 1..Len(chosen) :
                  chosen[i] \notin pref =>
                      /\ pref \subseteq {chosen[j] : j \in 1..(i - 1)}
                      /\ i > Len(last_pick.picked)

\* a call whose count exceeds the preferred tokens: all of them, then a general one
C12_Witness ==
    /\ last_pick.called
    /\ last_pick.picked # <<>>
    /\ Len(last_pick.chosen) > Len(last_pick.picked)
    /\ Len(last_pick.preferred) >= 2
    /\ \E i \in 1..Len(last_pick.chosen) :
          last_pick.chosen[i] \notin Range(last_pick.preferred)

(* Several calls of generate_prompt in one process, each with a seed *)

\* Bounds: calls of generate_prompt per process, and draws other code makes
\* on the shared generator between two calls
MaxRuns == 2
MaxOtherDraws == 1

\* delimiter.join(items)
RECURSIVE Join(_, _)
Join(items, delimiter) ==
    IF items = <<>> THEN ""
    ELSE IF Len(items) = 1 THEN items[1]
    ELSE items[1] \o delimiter \o Join(Tail(items), delimiter)

\* _format_line (lines 127-129)
format_line(name, items, flat, delimiter) ==
    IF flat THEN Join(items, delimiter) ELSE name \o ": " \o Join(items, delimiter)

\* CasePrompt.as_lines (lines 194-205)
as_lines(prompt, flat, delimiter) ==
    << format_line("Composition", prompt.composition, flat, delimiter),
       format_line("Action", prompt.action, flat, delimiter),
       format_line("Subject", prompt.subject, flat, delimiter),
       format_line("Environment", prompt.environment, flat, delimiter),
       format_line(IF flat THEN "" ELSE "Negative Prompt", prompt.negatives,
                   flat, delimiter) >>

\* lines 300-306: the CasePrompt the running call returns
CasePromptNow ==
    [composition |-> selections["composition"], action |-> selections["action"],
     subject |-> selections["subject"], environment |-> selections["environment"],
     negatives |-> negatives]

\* --flat and --delimiter as the callers pass them
Delimiters == {", ", "|"}

TwinInit == GenInit /\ seed # <<>>

\* generate_prompt is called again with the same arguments; other code may have
\* drawn from the generator in between (lines 245-246 run again)
RunAgain ==
    /\ gen_pc = "done"
    /\ run_no < MaxRuns
    /\ run_no' = run_no + 1
    /\ first_out' = IF run_no = 1 THEN CasePromptNow ELSE first_out
    /\ \E drawn \in 0..MaxOtherDraws :
         rng' = random_seed([rng EXCEPT !.pos = @ + drawn], seed)
    /\ sec_idx' = 1
    /\ key_idx' = 1
    /\ selections' = NoSelections
    /\ sampled' = NoSelections
    /\ negatives' = <<>>
    /\ last_pick' = NoPick
    /\ gen_pc' = "sampling"
    /\ UNCHANGED <<seed, default_count, overrides, style_preset, negative_groups>>
    /\ UNCHANGED <<poolVars, patchVars>>

TwinNext ==
    \/ SampleKey \/ SectionDone \/ SectionMissing \/ ApplyPreset \/ BuildNegatives
    \/ RunAgain

SpecTwin == TwinInit /\ [][TwinNext]_vars

\* C11: for a fixed seed, a later call of generate_prompt over the same pools,
\* modes, overrides, groups and preset returns the output lines of the first
\* call, whatever was drawn from the generator before either call.
C11_SeededRunsAgree ==
    (gen_pc = "done" /\ run_no > 1 /\ seed # <<>>) =>
        \A flat \in BOOLEAN : \A delimiter \in Delimiters :
            as_lines(CasePromptNow, flat, delimiter) = as_lines(first_out, flat, delimiter)

\* a second seeded call that drew for preferred and general tokens and merged a preset
C11_Witness ==
    /\ gen_pc = "done" /\ run_no = 2 /\ seed # <<>>
    /\ rng.pos >= 2
    /\ Len(modes) = 3
    /\ style_preset = "romantic"
    /\ as_lines(first_out, FALSE, ", ")[1] # "Composition: "

-----------------------------------------------------------------------------
(* apply_case_prompt.py: the workflow patcher *)

\* Bound of the patcher model: how many times main is run on the same files
MaxSessions == 2

(* A graph is a dict node id -> node; a node is [class_type, inputs]; inputs  *)
(* is a dict name -> value. A value is a literal or a reference               *)
(* [producer_node_id, output_slot]; both are records of one shape. Node ids   *)
(* are the canonical decimal strings of positive integers, modelled by the    *)
(* integers themselves (int(k) at lines 285/387, str(new_id) at 290/392).     *)

Lit(s) == [ref |-> 0, slot |-> 0, lit |-> s]

Ref(id, slot) == [ref |-> id, slot |-> slot, lit |-> ""]

Node(class_type, inputs) == [class_type |-> class_type, inputs |-> inputs]

Max(S) == CHOOSE x \in S : \A y \in S : y <= x

\* find_node_id (lines 248-252): the id of the first node of the class, 0 for None
find_node_id(g, class_type) ==
    IF \E i \in 1..Len(g) : g[i].v.class_type = class_type
    THEN g[CHOOSE i \in 1..Len(g) :
               /\ g[i].v.class_type = class_type
               /\ \A j \in 1..(i - 1) : g[j].v.class_type # class_type].k
    ELSE 0

\* an allocator that counts the nodes instead of taking the largest id
NextIdByCount(existing_ids) == Cardinality(existing_ids) + 1

\* next_id (lines 287-290 and 389-392): max(existing_ids) + 1 if existing_ids else 1
NextId(existing_ids) ==
    IF existing_ids = {} THEN 1 ELSE Max(existing_ids) + 1

\* inputs[name] = value for each update in turn (item assignment, dict.update)
RECURSIVE MergeInputs(_, _)
MergeInputs(inputs, updates) ==
    IF updates = <<>> THEN inputs
    ELSE MergeInputs(Put(inputs, Head(updates).k, Head(updates).v), Tail(updates))

\* node = dict(data[id]); inputs = dict(node.get("inputs", {})); inputs[..] = ..;
\* node["inputs"] = inputs; data[id] = node
UpdateNode(g, id, updates) ==
    Put(g, id, [Get(g, id) EXCEPT !.inputs = MergeInputs(@, updates)])

\* node = dict(data[id]); node["inputs"] = inputs; data[id] = node (lines 406-408, 429-431)
ReplaceInputs(g, id, inputs) ==
    Put(g, id, [Get(g, id) EXCEPT !.inputs = inputs])

\* a creation that allocates the id and then forgets to store the node
CreateNodeDropped(g, id, node) == g

\* data[new_id] = {"class_type": ..., "inputs": ...}
CreateNode(g, id, node) == Put(g, id, node)

\* a text check that accepts any node that exists
RoleOkAnyClass(g, id) == HasKey(g, id)

\* lines 230-233: isinstance(node, dict) and node.get("class_type") == "CLIPTextEncode"
RoleOk(g, id) == HasKey(g, id) /\ Get(g, id).class_type = "CLIPTextEncode"

\* lines 227-246: the text injection
TextInject(g, a) ==
    IF ~RoleOk(g, a.pos_node) \/ ~RoleOk(g, a.neg_node)
    THEN [err |-> "text:role_mismatch", data |-> g]
    ELSE LET pos_node == [Get(g, a.pos_node) EXCEPT
                              !.inputs = Put(@, "text", Lit(a.positive_text))]
             neg_node == [Get(g, a.neg_node) EXCEPT
                              !.inputs = Put(@, "text", Lit(a.negative_text))]
         IN  [err |-> "", data |-> Put(Put(g, a.pos_node, pos_node), a.neg_node, neg_node)]

\* lines 254-265: the LoRA strength override
LoraOverride(g, a) ==
    IF a.lora_strength_model = "" /\ a.lora_strength_clip = ""
    THEN [err |-> "", data |-> g]
    ELSE LET lora_id == find_node_id(g, "LoraLoader")
         IN  IF lora_id = 0
             THEN [err |-> "lora:node_not_found", data |-> g]
             ELSE [err |-> "",
                   data |-> UpdateNode(g, lora_id,
                       (IF a.lora_strength_model # ""
                        THEN <<Entry("strength_model", Lit(a.lora_strength_model))>>
                        ELSE <<>>)
                       \o (IF a.lora_strength_clip # ""
                           THEN <<Entry("strength_clip", Lit(a.lora_strength_clip))>>
                           ELSE <<>>))]

\* lines 267-275: the CLIP stop-layer override
ClipOverride(g, a) ==
    IF a.clip_layer = ""
    THEN [err |-> "", data |-> g]
    ELSE LET clip_id == find_node_id(g, "CLIPSetLastLayer")
         IN  IF clip_id = 0
             THEN [err |-> "clip:node_not_found", data |-> g]
             ELSE [err |-> "",
                   data |-> UpdateNode(g, clip_id,
                                <<Entry("stop_at_clip_layer", Lit(a.clip_layer))>>)]

\* the image files that exist where the command line points
ExistingImages == {"pose.png", "ref.png"}

\* an argument check that lets every command line through
ControlArgsNeverMissing(a) == FALSE

\* line 278: not args.controlnet or not args.control_image
MissingControlArgs(a) == a.controlnet = "" \/ a.control_image = ""

\* a lookup that forgets the conditioning applier
ControlNetIdsNoApply(g) ==
    [control_id |-> find_node_id(g, "ControlNetLoader"),
     image_id   |-> find_node_id(g, "LoadImage"),
     apply_id   |-> 0]

\* lines 281-283
ControlNetIds(g) ==
    [control_id |-> find_node_id(g, "ControlNetLoader"),
     image_id   |-> find_node_id(g, "LoadImage"),
     apply_id   |-> find_node_id(g, "ControlNetApplyAdvanced")]

\* lines 336-344 and 349-357: the inputs of the conditioning applier
ApplyInputs(a, control_id, image_id) ==
    << Entry("positive",      Ref(a.pos_node, 0)),
       Entry("negative",      Ref(a.neg_node, 0)),
       Entry("control_net",   Ref(control_id, 0)),
       Entry("image",         Ref(image_id, 0)),
       Entry("strength",      Lit(a.control_strength)),
       Entry("start_percent", Lit(a.control_start)),
       Entry("end_percent",   Lit(a.control_end)) >>

\* one next_id() call as the history records it
Alloc(id, g) == [id |-> id, graph_ids |-> Keys(g)]

\* what a block of main leaves behind
Outcome(e, g, log, dir, fls) ==
    [err |-> e, data |-> g, allocs |-> log, input_root |-> dir, files |-> fls]

\* lines 277-369: the ControlNet insertion. fs is the input directory before it.
ControlNetInsert(g, a, fs) ==
    IF ~a.add_controlnet THEN Outcome("", g, <<>>, fs.input_root, fs.files)
    ELSE IF MissingControlArgs(a)
    THEN Outcome("controlnet:missing_argument", g, <<>>, fs.input_root, fs.files)
    ELSE
    LET found       == ControlNetIds(g)
        ids0        == Keys(g)                                    \* line 285
        new_control == found.control_id = 0                       \* line 292
        control_id  == IF new_control THEN NextId(ids0) ELSE found.control_id
        ids1        == IF new_control THEN ids0 \cup {control_id} ELSE ids0
        log1        == IF new_control THEN <<Alloc(control_id, g)>> ELSE <<>>
        name_input  == <<Entry("control_net_name", Lit(a.controlnet))>>
        g1          == IF new_control
                       THEN CreateNode(g, control_id, Node("ControlNetLoader", name_input))
                       ELSE UpdateNode(g, control_id, name_input)
    IN  \* lines 307-311: input_root.mkdir(exist_ok=True), then the image must exist
        IF a.control_image \notin ExistingImages
        THEN Outcome("controlnet:image_not_found", g1, log1, TRUE, fs.files)
        ELSE
        LET files1      == fs.files \cup {a.control_image}        \* lines 312-315
            new_image   == found.image_id = 0                     \* line 317
            image_id    == IF new_image THEN NextId(ids1) ELSE found.image_id
            ids2        == IF new_image THEN ids1 \cup {image_id} ELSE ids1
            log2        == IF new_image THEN Append(log1, Alloc(image_id, g1)) ELSE log1
            image_input == <<Entry("image", Lit(a.control_image))>>
            g2          == IF new_image
                           THEN CreateNode(g1, image_id, Node("LoadImage", image_input))
                           ELSE UpdateNode(g1, image_id, image_input)
            new_apply   == found.apply_id = 0                     \* line 332
            apply_id    == IF new_apply THEN NextId(ids2) ELSE found.apply_id
            log3        == IF new_apply THEN Append(log2, Alloc(apply_id, g2)) ELSE log2
            g3          == IF new_apply
                           THEN CreateNode(g2, apply_id,
                                    Node("ControlNetApplyAdvanced",
                                         ApplyInputs(a, control_id, image_id)))
                           ELSE UpdateNode(g2, apply_id, ApplyInputs(a, control_id, image_id))
            sampler_id  == find_node_id(g3, "KSampler")           \* line 361
        IN  IF sampler_id = 0
            THEN Outcome("controlnet:sampler_not_found", g3, log3, TRUE, files1)
            ELSE Outcome("", UpdateNode(g3, sampler_id,
                                 <<Entry("positive", Ref(apply_id, 0)),
                                   Entry("negative", Ref(apply_id, 1))>>),
                         log3, TRUE, files1)

\* line 394
LoaderClass(a) ==
    IF a.ipadapter_community THEN "IPAdapterUnifiedLoaderCommunity"
    ELSE "IPAdapterUnifiedLoader"

\* lines 400-404
LoaderInputs(a, lora_id) ==
    << Entry("model", Ref(lora_id, 0)),
       Entry("preset", Lit(IF a.ipadapter_community THEN a.ipadapter_community_preset
                           ELSE a.ipadapter_preset)) >>

\* lines 417-427
AdvancedInputs(a, loader_id, image_id) ==
    << Entry("model",          Ref(loader_id, 0)),
       Entry("ipadapter",      Ref(loader_id, 1)),
       Entry("image",          Ref(image_id, 0)),
       Entry("weight",         Lit(a.ipadapter_weight)),
       Entry("weight_type",    Lit(a.ipadapter_weight_type)),
       Entry("combine_embeds", Lit(a.ipadapter_combine)),
       Entry("start_at",       Lit(a.ipadapter_start)),
       Entry("end_at",         Lit(a.ipadapter_end)),
       Entry("embeds_scaling", Lit(a.ipadapter_embeds)) >>

\* an image loader that is upserted like the ControlNet one
IPAdapterImageIdReused(g, existing_ids) ==
    IF find_node_id(g, "LoadImage") # 0 THEN find_node_id(g, "LoadImage")
    ELSE NextId(existing_ids)

\* line 413: image_id = next_id(), whatever image loaders the graph holds
IPAdapterImageId(g, existing_ids) == NextId(existing_ids)

\* lines 371-443: the IPAdapter insertion
IPAdapterInsert(g, a, fs) ==
    IF ~a.add_ipadapter THEN Outcome("", g, <<>>, fs.input_root, fs.files)
    ELSE IF a.ipadapter_image = ""
    THEN Outcome("ipadapter:missing_argument", g, <<>>, fs.input_root, fs.files)
    ELSE IF find_node_id(g, "LoraLoader") = 0
    THEN Outcome("ipadapter:dependency_missing", g, <<>>, fs.input_root, fs.files)
    ELSE IF a.ipadapter_image \notin ExistingImages               \* lines 377-381
    THEN Outcome("ipadapter:image_not_found", g, <<>>, TRUE, fs.files)
    ELSE
    LET lora_id     == find_node_id(g, "LoraLoader")
        files1      == fs.files \cup {a.ipadapter_image}          \* lines 382-385
        ids0        == Keys(g)                                    \* line 387
        found       == find_node_id(g, LoaderClass(a))            \* lines 395-399
        new_loader  == found = 0
        loader_id   == IF new_loader THEN NextId(ids0) ELSE found
        ids1        == IF new_loader THEN ids0 \cup {loader_id} ELSE ids0
        log1        == IF new_loader THEN <<Alloc(loader_id, g)>> ELSE <<>>
        g1          == IF new_loader
                       THEN CreateNode(g, loader_id,
                                Node(LoaderClass(a), LoaderInputs(a, lora_id)))
                       ELSE ReplaceInputs(g, loader_id, LoaderInputs(a, lora_id))
        image_id    == IPAdapterImageId(g1, ids1)                 \* line 413
        ids2        == ids1 \cup {image_id}
        log2        == Append(log1, Alloc(image_id, g1))
        g2          == CreateNode(g1, image_id,
                           Node("LoadImage", <<Entry("image", Lit(a.ipadapter_image))>>))
        advanced    == find_node_id(g2, "IPAdapterAdvanced")      \* line 416
        new_adv     == advanced = 0
        advanced_id == IF new_adv THEN NextId(ids2) ELSE advanced
        log3        == IF new_adv THEN Append(log2, Alloc(advanced_id, g2)) ELSE log2
        g3          == IF new_adv
                       THEN CreateNode(g2, advanced_id,
                                Node("IPAdapterAdvanced",
                                     AdvancedInputs(a, loader_id, image_id)))
                       ELSE ReplaceInputs(g2, advanced_id,
                                AdvancedInputs(a, loader_id, image_id))
        sampler_id  == find_node_id(g3, "KSampler")               \* line 436
    IN  IF sampler_id = 0
        THEN Outcome("ipadapter:sampler_not_found", g3, log3, TRUE, files1)
        ELSE Outcome("", UpdateNode(g3, sampler_id,
                             <<Entry("model", Ref(advanced_id, 0))>>),
                     log3, TRUE, files1)

\* lines 227-443 as one function: the graph main would write for document g and
\* command line a, or the error it stops with
RunMain(g, a, fs) ==
    LET t == TextInject(g, a)
    IN  IF t.err # "" THEN Outcome(t.err, t.data, <<>>, fs.input_root, fs.files)
        ELSE
        LET l == LoraOverride(t.data, a)
        IN  IF l.err # "" THEN Outcome(l.err, l.data, <<>>, fs.input_root, fs.files)
            ELSE
            LET c == ClipOverride(l.data, a)
            IN  IF c.err # "" THEN Outcome(c.err, c.data, <<>>, fs.input_root, fs.files)
                ELSE
                LET n == ControlNetInsert(c.data, a, fs)
                IN  IF n.err # "" THEN n
                    ELSE
                    LET i == IPAdapterInsert(n.data, a,
                                 [input_root |-> n.input_root, files |-> n.files])
                    IN  [i EXCEPT !.allocs = n.allocs \o @]

(* The graph documents and command lines the model ranges over *)

TextNode(clip_id) ==
    Node("CLIPTextEncode", <<Entry("text", Lit("")), Entry("clip", Ref(clip_id, 1))>>)

Checkpoint == Node("CheckpointLoaderSimple", <<Entry("ckpt_name", Lit("sdxl"))>>)

Lora ==
    Node("LoraLoader",
         << Entry("model", Ref(5, 0)), Entry("clip", Ref(5, 1)),
            Entry("strength_model", Lit("1.0")), Entry("strength_clip", Lit("1.0")) >>)

ClipLayer ==
    Node("CLIPSetLastLayer",
         <<Entry("clip", Ref(4, 1)), Entry("stop_at_clip_layer", Lit("-1"))>>)

Sampler(model_id) ==
    Node("KSampler",
         << Entry("model", Ref(model_id, 0)), Entry("positive", Ref(1, 0)),
            Entry("negative", Ref(2, 0)), Entry("seed", Lit("42")) >>)

\* a plain text-to-image graph without a LoRA loader
GraphPlain ==
    << Entry(5, Checkpoint), Entry(1, TextNode(5)), Entry(2, TextNode(5)),
       Entry(3, Sampler(5)) >>

\* the recipe's template: checkpoint, LoRA, CLIP layer, two encoders, sampler;
\* the ids leave a gap (6 and 7 are free)
GraphLora ==
    << Entry(5, Checkpoint), Entry(4, Lora), Entry(8, ClipLayer),
       Entry(1, TextNode(8)), Entry(2, TextNode(8)), Entry(3, Sampler(4)) >>

\* the template after someone added ControlNet and IPAdapter nodes by hand,
\* with inputs the patcher does not know (upload, vae, provider, clip_vision)
GraphPatched ==
    << Entry(5, Checkpoint), Entry(4, Lora), Entry(6, ClipLayer),
       Entry(1, TextNode(6)), Entry(2, TextNode(6)),
       Entry(7, Node("ControlNetLoader", <<Entry("control_net_name", Lit("old.pth"))>>)),
       Entry(8, Node("LoadImage",
                     <<Entry("image", Lit("old.png")), Entry("upload", Lit("image"))>>)),
       Entry(9, Node("ControlNetApplyAdvanced",
                     << Entry("positive", Ref(1, 0)), Entry("negative", Ref(2, 0)),
                        Entry("control_net", Ref(7, 0)), Entry("image", Ref(8, 0)),
                        Entry("strength", Lit("0.5")), Entry("start_percent", Lit("0.0")),
                        Entry("end_percent", Lit("1.0")), Entry("vae", Ref(5, 2)) >>)),
       Entry(10, Node("IPAdapterUnifiedLoader",
                      << Entry("model", Ref(4, 0)), Entry("preset", Lit("STANDARD")),
                         Entry("provider", Lit("CUDA")) >>)),
       Entry(11, Node("IPAdapterAdvanced",
                      << Entry("model", Ref(10, 0)), Entry("ipadapter", Ref(10, 1)),
                         Entry("image", Ref(8, 0)), Entry("weight", Lit("1.0")),
                         Entry("clip_vision", Ref(5, 3)) >>)),
       Entry(3, Node("KSampler",
                     << Entry("model", Ref(11, 0)), Entry("positive", Ref(9, 0)),
                        Entry("negative", Ref(9, 1)), Entry("seed", Lit("42")) >>)) >>

\* a graph that has no sampler
GraphNoSampler ==
    << Entry(5, Checkpoint), Entry(4, Lora), Entry(1, TextNode(4)), Entry(2, TextNode(4)) >>

\* a graph whose sampler reads a model from a node that is not there
GraphDangling ==
    << Entry(1, TextNode(1)), Entry(2, TextNode(1)), Entry(3, Sampler(5)) >>

BaseGraphs ==
    {GraphPlain, GraphLora, GraphPatched, GraphNoSampler, GraphDangling}

\* <<pos_node, neg_node>>: right, a sampler as positive node, a missing negative
\* node, the same encoder for both
TextChoices == {<<1, 2>>, <<3, 2>>, <<1, 9>>, <<1, 1>>}

\* <<lora_strength_model, lora_strength_clip>>: no override, both strengths
LoraChoices == {<<"", "">>, <<"0.8", "0.6">>}

ClipChoices == {"", "-2"}

\* <<add_controlnet, controlnet, control_image, control_strength>>
ControlChoices ==
    { <<FALSE, "", "", "0.9">>,
      <<TRUE, "", "pose.png", "0.9">>,
      <<TRUE, "cn.pth", "", "0.9">>,
      <<TRUE, "cn.pth", "missing.png", "0.9">>,
      <<TRUE, "cn.pth", "pose.png", "0.9">> }

\* <<add_ipadapter, ipadapter_image, ipadapter_community>>
AdapterChoices ==
    { <<FALSE, "", FALSE>>,
      <<TRUE, "", FALSE>>,
      <<TRUE, "missing.png", FALSE>>,
      <<TRUE, "ref.png", FALSE>>,
      <<TRUE, "ref.png", TRUE>> }

(* main, one action per block. The command line is parsed once (line 193); the *)
(* model draws each option at the block that first reads it, which gives the   *)
(* same runs as drawing all of them up front.                                  *)

PatchInit ==
    /\ workflow \in BaseGraphs
    /\ outdoc = <<>>
    /\ input_root = FALSE
    /\ files = {}
    /\ session = 0
    /\ pc = "idle"
    /\ err = ""
    /\ args = NoArgs
    /\ data = <<>>
    /\ loaded = <<>>
    /\ files0 = [input_root |-> FALSE, files |-> {}]
    /\ alloc_log = <<>>

Init ==
    /\ PatchInit
    /\ GenIdle
    /\ sets = <<>> /\ modes = <<>> /\ mode_idx = 1 /\ combined = <<>>
    /\ sources = <<>> /\ prev_combined = <<>> /\ pool_pc = "idle"

InputDir == [input_root |-> input_root, files |-> files]

\* pc and err after a block that ended with error e
Advance(e, next) ==
    /\ err' = e
    /\ pc' = IF e = "" THEN next ELSE "failed"

\* lines 220-225: --dry-run prints the prompt and returns before the workflow is read
DryRun ==
    /\ pc \in {"idle", "done", "failed"}
    /\ session < MaxSessions
    /\ session' = session + 1
    /\ pc' = "idle"
    /\ err' = ""
    /\ args' = NoArgs
    /\ data' = <<>>
    /\ loaded' = <<>>
    /\ alloc_log' = <<>>
    /\ files0' = InputDir
    /\ outdoc' = <<>>
    /\ UNCHANGED <<workflow, input_root, files>>
    /\ UNCHANGED <<poolVars, genVars>>

\* lines 227-246: a run starts, reads the workflow and injects the two texts
StartAndInjectText ==
    /\ pc \in {"idle", "done", "failed"}
    /\ session < MaxSessions
    /\ session' = session + 1
    /\ \E ids \in TextChoices :
         LET a == [NoArgs EXCEPT !.pos_node = ids[1], !.neg_node = ids[2],
                                 !.positive_text = "P1", !.negative_text = "N1"]
             t == TextInject(workflow, a)
         IN  /\ args' = a
             /\ data' = t.data
             /\ Advance(t.err, "lora")
    /\ loaded' = workflow
    /\ alloc_log' = <<>>
    /\ files0' = InputDir
    /\ outdoc' = <<>>
    /\ UNCHANGED <<workflow, input_root, files>>
    /\ UNCHANGED <<poolVars, genVars>>

\* lines 254-265
OverrideLora ==
    /\ pc = "lora"
    /\ \E c \in LoraChoices :
         LET a == [args EXCEPT !.lora_strength_model = c[1], !.lora_strength_clip = c[2]]
             r == LoraOverride(data, a)
         IN  /\ args' = a
             /\ data' = r.data
             /\ Advance(r.err, "clip")
    /\ UNCHANGED <<workflow, outdoc, input_root, files, session, loaded, files0, alloc_log>>
    /\ UNCHANGED <<poolVars, genVars>>

\* lines 267-275
OverrideClipLayer ==
    /\ pc = "clip"
    /\ \E c \in ClipChoices :
         LET a == [args EXCEPT !.clip_layer = c]
             r == ClipOverride(data, a)
         IN  /\ args' = a
             /\ data' = r.data
             /\ Advance(r.err, "controlnet")
    /\ UNCHANGED <<workflow, outdoc, input_root, files, session, loaded, files0, alloc_log>>
    /\ UNCHANGED <<poolVars, genVars>>

\* lines 277-369
InsertControlNet ==
    /\ pc = "controlnet"
    /\ \E c \in ControlChoices :
         LET a == [args EXCEPT !.add_controlnet = c[1], !.controlnet = c[2],
                               !.control_image = c[3], !.control_strength = c[4]]
             r == ControlNetInsert(data, a, InputDir)
         IN  /\ args' = a
             /\ data' = r.data
             /\ input_root' = r.input_root
             /\ files' = r.files
             /\ alloc_log' = alloc_log \o r.allocs
             /\ Advance(r.err, "ipadapter")
    /\ UNCHANGED <<workflow, outdoc, session, loaded, files0>>
    /\ UNCHANGED <<poolVars, genVars>>

\* lines 371-443
InsertIPAdapter ==
    /\ pc = "ipadapter"
    /\ \E c \in AdapterChoices :
         LET a == [args EXCEPT !.add_ipadapter = c[1], !.ipadapter_image = c[2],
                               !.ipadapter_community = c[3]]
             r == IPAdapterInsert(data, a, InputDir)
         IN  /\ args' = a
             /\ data' = r.data
             /\ input_root' = r.input_root
             /\ files' = r.files
             /\ alloc_log' = alloc_log \o r.allocs
             /\ Advance(r.err, "write")
    /\ UNCHANGED <<workflow, outdoc, session, loaded, files0>>
    /\ UNCHANGED <<poolVars, genVars>>

\* lines 445-448: output_path = args.output or workflow_path; write_text(json.dumps(data))
WriteWorkflow ==
    /\ pc = "write"
    /\ \E o \in BOOLEAN :
         /\ args' = [args EXCEPT !.output = o]
         /\ IF o THEN outdoc' = data /\ UNCHANGED workflow
                 ELSE workflow' = data /\ UNCHANGED outdoc
    /\ pc' = "done"
    /\ UNCHANGED <<input_root, files, session, err, data, loaded, files0, alloc_log>>
    /\ UNCHANGED <<poolVars, genVars>>

Next ==
    \/ DryRun
    \/ StartAndInjectText
    \/ OverrideLora
    \/ OverrideClipLayer
    \/ InsertControlNet
    \/ InsertIPAdapter
    \/ WriteWorkflow

Spec == Init /\ [][Next]_vars

(* Properties of the patcher, checked under Spec *)

\* the document the run wrote (line 445: args.output or workflow_path)
WrittenDoc == IF args.output THEN outdoc ELSE workflow

\* every reference of graph g names a node of g
RefsResolve(g) ==
    \A i \in 1..Len(g) : \A j \in 1..Len(g[i].v.inputs) :
        g[i].v.inputs[j].v.ref # 0 => HasKey(g, g[i].v.inputs[j].v.ref)

\* C2: applying the ControlNet insertion a second time, with the same command
\* line, to the graph the first application wrote gives that graph again: the
\* second application succeeds, creates no node and changes no input.
C2_ControlNetTwiceIsOnce ==
    (pc = "done" /\ args.add_controlnet /\ ~args.add_ipadapter) =>
        LET again == RunMain(WrittenDoc, args, InputDir)
        IN  /\ again.err = ""
            /\ again.allocs = <<>>
            /\ again.data = WrittenDoc

\* a first application that had to create all three ControlNet nodes
C2_Witness ==
    /\ pc = "done" /\ args.add_controlnet /\ ~args.add_ipadapter
    /\ Len(alloc_log) = 3
    /\ Len(WrittenDoc) = Len(loaded) + 3

\* C3: every id allocated during one run equals max(ids in the graph or
\* allocated earlier in the run) + 1, so it is neither an id of the graph nor an
\* id allocated before, also when both insertions run in one pass; ids {1,3}
\* give 4 and then 5.
C3_AllocatedIdsFresh ==
    /\ \A i \in 1..Len(alloc_log) :
          LET known == alloc_log[i].graph_ids \cup {alloc_log[j].id : j \in 1..(i - 1)}
          IN  /\ alloc_log[i].id \notin known
              /\ alloc_log[i].id = Max(known) + 1
    /\ NextId({1, 3}) = 4
    /\ NextId({1, 3} \cup {NextId({1, 3})}) = 5

\* one run in which ControlNet created three nodes and IPAdapter three more, in
\* a graph whose ids leave a gap
C3_Witness ==
    /\ pc = "write" /\ args.add_controlnet /\ args.add_ipadapter
    /\ Len(alloc_log) = 6
    /\ \E n \in 1..Max(Keys(loaded)) : n \notin Keys(loaded)

\* C4: if every reference of the input graph resolves, every reference of the
\* graph a successful run writes resolves, those of the inserted nodes and of
\* the rewired sampler included.
C4_ReferencesStayResolved ==
    (pc = "done" /\ RefsResolve(loaded)) => RefsResolve(WrittenDoc)

\* a successful run with overrides and both insertions on a well-formed graph
C4_Witness ==
    /\ pc = "done" /\ RefsResolve(loaded)
    /\ args.add_controlnet /\ args.add_ipadapter
    /\ args.lora_strength_model # "" /\ args.clip_layer # ""
    /\ Len(WrittenDoc) > Len(loaded)

\* the roles the patcher upserts, and the input names it supplies for each
UpsertRoles ==
    {"ControlNetLoader", "LoadImage", "ControlNetApplyAdvanced",
     "IPAdapterUnifiedLoader", "IPAdapterUnifiedLoaderCommunity", "IPAdapterAdvanced"}

SuppliedKeys(class_type) ==
    IF class_type = "ControlNetLoader" THEN {"control_net_name"}
    ELSE IF class_type = "LoadImage" THEN {"image"}
    ELSE IF class_type = "ControlNetApplyAdvanced"
    THEN {"positive", "negative", "control_net", "image", "strength",
          "start_percent", "end_percent"}
    ELSE IF class_type \in {"IPAdapterUnifiedLoader", "IPAdapterUnifiedLoaderCommunity"}
    THEN {"model", "preset"}
    ELSE {"model", "ipadapter", "image", "weight", "weight_type", "combine_embeds",
          "start_at", "end_at", "embeds_scaling"}

\* C5: when the patcher upserts a node that already exists, every input the
\* patch does not supply keeps its previous value.
C5_UpsertKeepsOtherInputs ==
    pc \in {"write", "done"} =>
        \A i \in 1..Len(loaded) :
            loaded[i].v.class_type \in UpsertRoles =>
                \A j \in 1..Len(loaded[i].v.inputs) :
                    LET e   == loaded[i].v.inputs[j]
                        now == Get(data, loaded[i].k).inputs
                    IN  e.k \notin SuppliedKeys(loaded[i].v.class_type) =>
                            HasKey(now, e.k) /\ Get(now, e.k) = e.v

\* graph g has a node id of the class / some node of the class
HasClass(g, id, class_type) ==
    \E i \in 1..Len(g) : g[i].k = id /\ g[i].v.class_type = class_type

AnyOfClass(g, class_type) == \E i \in 1..Len(g) : g[i].v.class_type = class_type

\* every check of main passes for document g and command line a
ChecksPass(g, a) ==
    /\ HasClass(g, a.pos_node, "CLIPTextEncode")
    /\ HasClass(g, a.neg_node, "CLIPTextEncode")
    /\ (a.lora_strength_model # "" \/ a.lora_strength_clip # "") => AnyOfClass(g, "LoraLoader")
    /\ a.clip_layer # "" => AnyOfClass(g, "CLIPSetLastLayer")
    /\ a.add_controlnet =>
          /\ a.controlnet # "" /\ a.control_image \in ExistingImages
          /\ AnyOfClass(g, "KSampler")
    /\ a.add_ipadapter =>
          /\ a.ipadapter_image \in ExistingImages
          /\ AnyOfClass(g, "LoraLoader") /\ AnyOfClass(g, "KSampler")

\* input name of node id in g, as a value (a literal "?" when it has none)
InputOf(g, id, name) == GetOr(Get(g, id).inputs, name, Lit("?"))

\* the node a reference names has the class, and its input holds the literal
RefTo(g, v, class_type, name, text) ==
    /\ HasClass(g, v.ref, class_type)
    /\ InputOf(g, v.ref, name) = Lit(text)

\* every mutation command line a asks for is present in g
RequestedApplied(g, a) ==
    /\ InputOf(g, a.neg_node, "text") = Lit(a.negative_text)
    /\ a.pos_node # a.neg_node => InputOf(g, a.pos_node, "text") = Lit(a.positive_text)
    /\ a.lora_strength_model # "" =>
          InputOf(g, find_node_id(g, "LoraLoader"), "strength_model") = Lit(a.lora_strength_model)
    /\ a.lora_strength_clip # "" =>
          InputOf(g, find_node_id(g, "LoraLoader"), "strength_clip") = Lit(a.lora_strength_clip)
    /\ a.clip_layer # "" =>
          InputOf(g, find_node_id(g, "CLIPSetLastLayer"), "stop_at_clip_layer") = Lit(a.clip_layer)
    /\ a.add_controlnet =>
          LET sampler == find_node_id(g, "KSampler")
              pos     == InputOf(g, sampler, "positive")
              neg     == InputOf(g, sampler, "negative")
          IN  /\ HasClass(g, pos.ref, "ControlNetApplyAdvanced")
              /\ pos.slot = 0 /\ neg = Ref(pos.ref, 1)
              /\ InputOf(g, pos.ref, "positive") = Ref(a.pos_node, 0)
              /\ InputOf(g, pos.ref, "negative") = Ref(a.neg_node, 0)
              /\ InputOf(g, pos.ref, "strength") = Lit(a.control_strength)
              /\ RefTo(g, InputOf(g, pos.ref, "control_net"), "ControlNetLoader",
                       "control_net_name", a.controlnet)
              /\ RefTo(g, InputOf(g, pos.ref, "image"), "LoadImage", "image", a.control_image)
    /\ a.add_ipadapter =>
          LET sampler == find_node_id(g, "KSampler")
              model   == InputOf(g, sampler, "model")
          IN  /\ HasClass(g, model.ref, "IPAdapterAdvanced")
              /\ HasClass(g, InputOf(g, model.ref, "model").ref, LoaderClass(a))
              /\ RefTo(g, InputOf(g, model.ref, "image"), "LoadImage", "image",
                       a.ipadapter_image)

ControlArgsIncomplete(a) ==
    a.add_controlnet /\ (a.controlnet = "" \/ a.control_image = "")

\* C7 as stated: ControlNet insertion requested without the model name or the
\* image fails with the missing-argument error, and at that moment no file has
\* been created or copied and no node of the graph being patched has been
\* changed or added.
C7_MissingArgumentBeforeAnyMutation ==
    ControlArgsIncomplete(args) =>
        /\ pc = "failed" /\ err = "controlnet:missing_argument"
        /\ InputDir = files0
        /\ data = loaded

\* C7 amended: the failure comes before any file is created or copied, before
\* any node is added and with the stored documents untouched; the in-memory
\* graph differs from the loaded one only in the inputs of the two text
\* encoders and of the overridden LoRA loader and CLIP layer node.
C7_MissingArgumentBeforeInsertion ==
    ControlArgsIncomplete(args) =>
        /\ pc = "failed" /\ err = "controlnet:missing_argument"
        /\ InputDir = files0
        /\ workflow = loaded /\ outdoc = <<>>
        /\ alloc_log = <<>>
        /\ Len(data) = Len(loaded)
        /\ \A i \in 1..Len(data) :
              /\ data[i].k = loaded[i].k
              /\ data[i].v.class_type = loaded[i].v.class_type
              /\ data[i].v # loaded[i].v =>
                    \/ data[i].k \in {args.pos_node, args.neg_node}
                    \/ data[i].v.class_type \in {"LoraLoader", "CLIPSetLastLayer"}

\* the failure, in a run whose text injection and overrides had changed the graph
C7_Witness ==
    /\ err = "controlnet:missing_argument"
    /\ args.controlnet = ""
    /\ args.lora_strength_model # "" /\ args.clip_layer # ""
    /\ data # loaded

\* inputs b are inputs a with `text` set to the literal t and nothing else touched
OnlyTextSet(a, b, t) ==
    /\ Get(b, "text") = Lit(t)
    /\ Keys(b) = Keys(a) \cup {"text"}
    /\ \A i \in 1..Len(a) : a[i].k # "text" => Get(b, a[i].k) = a[i].v

\* graph g is graph g0 after the text injection of command line a
TextInjected(g0, g, a) ==
    /\ Len(g) = Len(g0)
    /\ \A i \in 1..Len(g0) :
          /\ g[i].k = g0[i].k
          /\ g[i].v.class_type = g0[i].v.class_type
          /\ g0[i].k = a.pos_node => OnlyTextSet(g0[i].v.inputs, g[i].v.inputs, a.positive_text)
          /\ g0[i].k = a.neg_node => OnlyTextSet(g0[i].v.inputs, g[i].v.inputs, a.negative_text)
          /\ g0[i].k \notin {a.pos_node, a.neg_node} => g[i].v = g0[i].v

\* C13: text injection fails with the role-mismatch error if either id is absent
\* or names a node that is not a text encoder; otherwise it overwrites only the
\* `text` input of the two nodes, positive text into the first and negative
\* into the second, keeping their role and other inputs.
C13_TextInjection ==
    /\ (pc = "failed" /\ err = "text:role_mismatch") <=>
          (pc \in {"failed", "lora"} /\ loaded # <<>>
             /\ ~(HasClass(loaded, args.pos_node, "CLIPTextEncode")
                  /\ HasClass(loaded, args.neg_node, "CLIPTextEncode")))
    /\ (pc = "failed" /\ err = "text:role_mismatch") => data = loaded
    /\ pc = "lora" => TextInjected(loaded, data, args)

\* the ids of the image-loader nodes of graph g
ImageLoaders(g) == {g[i].k : i \in {j \in 1..Len(g) : g[j].v.class_type = "LoadImage"}}

\* C14: every successful IPAdapter insertion adds exactly one new image-loader
\* node, under an id the graph did not hold, and points the advanced node's
\* image input at it; no earlier image loader is modified or removed; and when
\* the graph already holds the unified loader and the advanced node, the node
\* count grows by exactly one per insertion (so by n over n insertions).
C14_FreshImageLoaderEachTime ==
    [][(pc = "ipadapter" /\ pc' = "write" /\ args'.add_ipadapter) =>
          LET adv == find_node_id(data', "IPAdapterAdvanced")
              img == InputOf(data', adv, "image").ref
          IN  /\ ImageLoaders(data') \ ImageLoaders(data) = {img}
              /\ img \notin Keys(data)
              /\ InputOf(data', adv, "image") = Ref(img, 0)
              /\ Get(data', img) =
                    Node("LoadImage", <<Entry("image", Lit(args'.ipadapter_image))>>)
              /\ \A id \in ImageLoaders(data) :
                    HasKey(data', id) /\ Get(data', id) = Get(data, id)
              /\ (AnyOfClass(data, LoaderClass(args')) /\ AnyOfClass(data, "IPAdapterAdvanced"))
                    => Len(data') = Len(data) + 1
    ]_vars

\* the second of two IPAdapter insertions on the same document: the graph held
\* the loader, the advanced node and the first insertion's image loader, and
\* grew by one node
C14_Witness ==
    /\ pc = "write" /\ session = 2
    /\ args.add_ipadapter /\ ~args.add_controlnet
    /\ AnyOfClass(loaded, LoaderClass(args)) /\ AnyOfClass(loaded, "IPAdapterAdvanced")
    /\ ~AnyOfClass(loaded, "ControlNetLoader")
    /\ ImageLoaders(loaded) # {}
    /\ Len(data) = Len(loaded) + 1
    /\ Cardinality(ImageLoaders(data)) = Cardinality(ImageLoaders(loaded)) + 1

\* in graph g no image loader feeds both a ControlNet applier and an IPAdapter
\* advanced node
SeparateImages(g) ==
    \A i, j \in 1..Len(g) :
        (/\ g[i].v.class_type = "ControlNetApplyAdvanced"
         /\ g[j].v.class_type = "IPAdapterAdvanced"
         /\ HasKey(g[i].v.inputs, "image") /\ HasKey(g[j].v.inputs, "image"))
        => Get(g[i].v.inputs, "image").ref # Get(g[j].v.inputs, "image").ref

\* C15: over any sequence of successful runs on the same document, each with
\* ControlNet insertion, IPAdapter insertion or both, the applier's image input
\* and the advanced node's image input never come to name the same image loader.
C15_ImageLoadersStaySeparate ==
    [][(pc = "write" /\ pc' = "done" /\ (args.add_controlnet \/ args.add_ipadapter)
          /\ SeparateImages(loaded))
         => SeparateImages(data)]_vars

====
